---- MODULE Spec2Model ----
(***************************************************************************)
(* Model of retrieve-missing-steam-game-icons (src/src/main.rs).           *)
(*                                                                         *)
(* Strings are sequences of one-character strings, so that the two         *)
(* regular expressions, the header comparison, `starts_with` and           *)
(* `ends_with` are computed character by character as the code does.       *)
(* Option<T> is a sequence of length 0 (None) or 1 (Some).                 *)
(*                                                                         *)
(* Two specifications:                                                     *)
(*   SpecParse  the line loop of extract_game_id_and_icon_filename         *)
(*              (main.rs 116-178), one action per line read;               *)
(*   Spec       the loop of main (main.rs 43-75) together with the SIGINT  *)
(*              handler and another process writing to the icon directory. *)
(***************************************************************************)
EXTENDS Integers, Sequences, FiniteSets, TLC

\* ---------------------------------------------------------------- bounds
\* Longest shortcut file (in lines) explored by SpecParse.
MaxLines == 4
\* Most entries in the working directory explored by Spec.
MaxEntries == 2

\* ------------------------------------------------------------- constants
\* main.rs 17: r"C:\Program Files (x86)\Steam\steam\games\"
LOCAL_ICON_DIR == <<"C", ":", "\\", "P", "r", "o", "g", "r", "a", "m", " ", "F", "i", "l", "e", "s", " ", "(", "x", "8", "6", ")", "\\", "S", "t", "e", "a", "m", "\\", "s", "t", "e", "a", "m", "\\", "g", "a", "m", "e", "s", "\\">>

\* main.rs 130: "[InternetShortcut]"
SectionHeader == <<"[", "I", "n", "t", "e", "r", "n", "e", "t", "S", "h", "o", "r", "t", "c", "u", "t", "]">>

\* main.rs 107: the literal part of ^URL=steam://rungameid/(\d+)$
UrlPrefix == <<"U", "R", "L", "=", "s", "t", "e", "a", "m", ":", "/", "/", "r", "u", "n", "g", "a", "m", "e", "i", "d", "/">>

\* main.rs 114: the literal parts of ^IconFile=(.*\\)([^.\\]+\.ico)$
IconPrefix == <<"I", "c", "o", "n", "F", "i", "l", "e", "=">>
IcoSuffix == <<".", "i", "c", "o">>

\* main.rs 97: ".url"
UrlExt == <<".", "u", "r", "l">>

\* \d of the regex crate (the alphabet of the model holds ASCII digits only;
\* the crate's \d also accepts the other Unicode decimal digits).
Digits == {"0", "1", "2", "3", "4", "5", "6", "7", "8", "9"}

\* Option<String>
None == <<>>
Some(v) == <<v>>
IsSome(o) == Len(o) = 1
IsNone(o) == Len(o) = 0
Unwrap(o) == o[1]

\* ------------------------------------------------------- string helpers
\* str::starts_with
StartsWith(s, p) == Len(s) >= Len(p) /\ SubSeq(s, 1, Len(p)) = p

\* str::ends_with
EndsWith(s, p) == Len(s) >= Len(p) /\ SubSeq(s, Len(s) - Len(p) + 1, Len(s)) = p

\* the text after a prefix
DropPrefix(s, p) == SubSeq(s, Len(p) + 1, Len(s))

\* ------------------------------------------------------ GAME_ID_REGEX
\* ^URL=steam://rungameid/(\d+)$ : captures(line), None when no match,
\* else Some(<<group 1>>).
GameIdCaptures(line) ==
    IF /\ StartsWith(line, UrlPrefix)
       /\ Len(line) > Len(UrlPrefix)
       /\ \A k \in (Len(UrlPrefix) + 1)..Len(line) : line[k] \in Digits
    THEN Some(<<DropPrefix(line, UrlPrefix)>>)
    ELSE None

\* ----------------------------------------------------- ICON_PATH_REGEX
\* Mutant of LastBackslash: the first backslash instead of the last (group 1
\* matched lazily).
FirstBackslash(rest) ==
    IF \E k \in 1..Len(rest) : rest[k] = "\\"
    THEN CHOOSE k \in 1..Len(rest) :
            /\ rest[k] = "\\"
            /\ \A j \in 1..(k - 1) : rest[j] # "\\"
    ELSE 0

\* Group 2, [^.\\]+\.ico, holds no backslash and group 1, .*\\, ends with
\* one: the only split is at the last backslash of the text (0 when none).
LastBackslash(rest) ==
    IF \E k \in 1..Len(rest) : rest[k] = "\\"
    THEN CHOOSE k \in 1..Len(rest) :
            /\ rest[k] = "\\"
            /\ \A j \in (k + 1)..Len(rest) : rest[j] # "\\"
    ELSE 0

\* [^.\\]+\.ico$ on the text after the last backslash
IsIconName(name) ==
    /\ EndsWith(name, IcoSuffix)
    /\ Len(name) > Len(IcoSuffix)
    /\ \A k \in 1..(Len(name) - Len(IcoSuffix)) : name[k] \notin {".", "\\"}

\* ^IconFile=(.*\\)([^.\\]+\.ico)$ : captures(line), None when no match,
\* else Some(<<group 1, group 2>>).
IconPathCaptures(line) ==
    IF ~StartsWith(line, IconPrefix)
    THEN None
    ELSE LET rest == DropPrefix(line, IconPrefix)
             k    == LastBackslash(rest)
         IN  IF k > 0 /\ IsIconName(SubSeq(rest, k + 1, Len(rest)))
             THEN Some(<<SubSeq(rest, 1, k), SubSeq(rest, k + 1, Len(rest))>>)
             ELSE None

\* ------------------------------------------------------------ the parser
\* What BufReader::lines() yields for a line that cannot be read (an I/O
\* error, or bytes that are not UTF-8): Err instead of Ok(String).
ReadErr == <<"<io error>">>

\* The locals of the line loop (main.rs 119-121) plus the error the loop
\* bailed with, None while it has not.
ParseStart == [game_id |-> None, icon_filename |-> None,
               in_shortcut_section |-> FALSE, err |-> None]

Bail(st, e) == [st EXCEPT !.err = Some(e)]

\* Mutant of UrlLine: the second URL= line overwrites the game id.
UrlLineOverwrite(st, captures, filename) ==
    [st EXCEPT !.game_id = Some(captures[1])]

\* main.rs 136-147
UrlLine(st, captures, filename) ==
    IF IsSome(st.game_id)
    THEN Bail(st, [msg |-> "Game ID already set for shortcut", filename |-> filename])
    ELSE [st EXCEPT !.game_id = Some(captures[1])]

\* Mutant of IconLine: a second IconFile= line overwrites the icon filename.
IconLineOverwrite(st, captures, filename) ==
    IF captures[1] # LOCAL_ICON_DIR
    THEN Bail(st, [msg |-> "Unrecognized icon directory",
                   icon_dir |-> captures[1], filename |-> filename])
    ELSE [st EXCEPT !.icon_filename = Some(captures[2])]

\* Mutant of IconLine: the directory of the IconFile= value is not compared
\* with LOCAL_ICON_DIR.
IconLineAnyDir(st, captures, filename) ==
    IF IsSome(st.icon_filename)
    THEN Bail(st, [msg |-> "Icon path and/or name already set for shortcut",
                   filename |-> filename])
    ELSE [st EXCEPT !.icon_filename = Some(captures[2])]

\* main.rs 148-169
IconLine(st, captures, filename) ==
    IF IsSome(st.icon_filename)
    THEN Bail(st, [msg |-> "Icon path and/or name already set for shortcut",
                   filename |-> filename])
    ELSE LET icon_dir == captures[1]
         IN  IF icon_dir # LOCAL_ICON_DIR
             THEN Bail(st, [msg |-> "Unrecognized icon directory",
                            icon_dir |-> icon_dir, filename |-> filename])
             ELSE [st EXCEPT !.icon_filename = Some(captures[2])]

\* Mutant of ParseLine: a line that begins with `[` does not end the section.
ParseLineNoSectionEnd(st, item, filename) ==
    IF item = ReadErr
    THEN Bail(st, [msg |-> "Failed to read line"])
    ELSE IF item = SectionHeader
    THEN [st EXCEPT !.in_shortcut_section = TRUE]
    ELSE IF ~st.in_shortcut_section
    THEN st
    ELSE IF IsSome(GameIdCaptures(item))
    THEN UrlLine(st, Unwrap(GameIdCaptures(item)), filename)
    ELSE IF IsSome(IconPathCaptures(item))
    THEN IconLine(st, Unwrap(IconPathCaptures(item)), filename)
    ELSE st

\* Mutant of ParseLine: the patterns are tried on every line, inside the
\* [InternetShortcut] section or not.
ParseLineAnySection(st, item, filename) ==
    IF item = ReadErr
    THEN Bail(st, [msg |-> "Failed to read line"])
    ELSE IF item = SectionHeader
    THEN [st EXCEPT !.in_shortcut_section = TRUE]
    ELSE IF StartsWith(item, <<"[">>)
    THEN [st EXCEPT !.in_shortcut_section = FALSE]
    ELSE IF IsSome(GameIdCaptures(item))
    THEN UrlLine(st, Unwrap(GameIdCaptures(item)), filename)
    ELSE IF IsSome(IconPathCaptures(item))
    THEN IconLine(st, Unwrap(IconPathCaptures(item)), filename)
    ELSE st

\* One iteration of `for line in lines` (main.rs 122-171) on the item the
\* iterator yields.
ParseLine(st, item, filename) ==
    IF item = ReadErr
    THEN Bail(st, [msg |-> "Failed to read line"])
    ELSE IF item = SectionHeader
    THEN [st EXCEPT !.in_shortcut_section = TRUE]
    ELSE IF ~st.in_shortcut_section
    THEN st
    ELSE IF StartsWith(item, <<"[">>)
    THEN [st EXCEPT !.in_shortcut_section = FALSE]
    ELSE IF IsSome(GameIdCaptures(item))
    THEN UrlLine(st, Unwrap(GameIdCaptures(item)), filename)
    ELSE IF IsSome(IconPathCaptures(item))
    THEN IconLine(st, Unwrap(IconPathCaptures(item)), filename)
    ELSE st

\* Mutant of ParseFinish: a file that sets neither field is skipped.
ParseFinishSkip(st, filename) ==
    IF IsSome(st.game_id) /\ IsSome(st.icon_filename)
    THEN [kind |-> "Pair", game_id |-> Unwrap(st.game_id),
          icon_filename |-> Unwrap(st.icon_filename)]
    ELSE IF IsNone(st.game_id) /\ IsNone(st.icon_filename)
    THEN [kind |-> "Skip"]
    ELSE [kind |-> "Err",
          err |-> [msg |-> "Shortcut could not be parsed or was not a Steam shortcut file",
                   filename |-> filename]]

\* Mutant of ParseFinish: a file that sets one field only is skipped.
ParseFinishPartialSkip(st, filename) ==
    IF IsSome(st.game_id) /\ IsSome(st.icon_filename)
    THEN [kind |-> "Pair", game_id |-> Unwrap(st.game_id),
          icon_filename |-> Unwrap(st.icon_filename)]
    ELSE IF IsSome(st.game_id) \/ IsSome(st.icon_filename)
    THEN [kind |-> "Skip"]
    ELSE [kind |-> "Err",
          err |-> [msg |-> "Shortcut could not be parsed or was not a Steam shortcut file",
                   filename |-> filename]]

\* main.rs 173-177: the value returned once every line is consumed.
\* Ok(Some(pair)) is kind "Pair", Ok(None) kind "Skip", Err(e) kind "Err".
ParseFinish(st, filename) ==
    IF IsSome(st.game_id) /\ IsSome(st.icon_filename)
    THEN [kind |-> "Pair", game_id |-> Unwrap(st.game_id),
          icon_filename |-> Unwrap(st.icon_filename)]
    ELSE [kind |-> "Err",
          err |-> [msg |-> "Shortcut could not be parsed or was not a Steam shortcut file",
                   filename |-> filename]]

\* ------------------------------------------------------------- the state
VARIABLES
    \* SpecParse: one call of the line loop of extract_game_id_and_icon_filename
    filename,             \* main.rs 80: the entry's file name
    lines,                \* main.rs 118: what the lines() iterator will yield
    pos,                  \* how many items of `lines` the loop has consumed
    game_id,              \* main.rs 119
    icon_filename,        \* main.rs 120
    in_shortcut_section,  \* main.rs 121
    result,               \* None while the loop runs, then Some(returned value)
    \* Spec: one run of main
    pc,                   \* where main is: Start, Loop, Fetching, Creating, Writing, Done, Failed
    error,                \* the error main returned, None while it has not
    icon_dir_is_dir,      \* main.rs 39: whether LOCAL_ICON_DIR is a directory
    dir,                  \* main.rs 44: what the read_dir iterator will yield
    idx,                  \* how many items of `dir` the iterator has yielded
    sigint_received,      \* main.rs 197: the AtomicBool
    fs,                   \* the files under LOCAL_ICON_DIR: path -> [bytes, by]
    cur,                  \* the locals of the iteration in progress (main.rs 51-69)
    requests,             \* the URLs requested with reqwest::get, in order
    stat_log,             \* the entries whose metadata was read, in order
    open_log              \* the entries whose content was opened, in order

pvars == <<filename, lines, pos, game_id, icon_filename, in_shortcut_section, result>>

mvars == <<pc, error, icon_dir_is_dir, dir, idx, sigint_received, fs, cur, requests,
           stat_log, open_log>>

vars == <<pvars, mvars>>

\* --------------------------------------------------- inputs of SpecParse
OtherHeader == <<"[", "O", "t", "h", "e", "r", "]">>
OtherDir == <<"C", ":", "\\", "i", "c", "o", "n", "s", "\\">>
Name_a_ico == <<"a", ".", "i", "c", "o">>
Name_b_ico == <<"b", ".", "i", "c", "o">>
Name_a_b_ico == <<"a", ".", "b", ".", "i", "c", "o">>

Url_7 == UrlPrefix \o <<"7">>
Url_42 == UrlPrefix \o <<"4", "2">>
Url_7x == UrlPrefix \o <<"7", "x">>
Icon_a == IconPrefix \o LOCAL_ICON_DIR \o Name_a_ico
Icon_b == IconPrefix \o LOCAL_ICON_DIR \o Name_b_ico
Icon_other_a == IconPrefix \o OtherDir \o Name_a_ico
Icon_other_a_b == IconPrefix \o OtherDir \o Name_a_b_ico
Prop == <<"P", "r", "o", "p", "3", "=", "1", "9", ",", "0">>

\* The items a shortcut file of the model is made of.
LinePool == {SectionHeader, OtherHeader, Url_7, Url_42, Url_7x, Icon_a, Icon_b,
             Icon_other_a, Icon_other_a_b, Prop, ReadErr}

File_a_url == <<"a", ".", "u", "r", "l">>
File_b_url == <<"b", ".", "u", "r", "l">>

SeqsUpTo(S, n) == UNION {[1..k -> S] : k \in 0..n}

\* ------------------------------------------------------------- SpecParse
\* main.rs 116-121: the file is open, nothing is read yet.
InitParse ==
    /\ filename = File_a_url
    /\ lines \in SeqsUpTo(LinePool, MaxLines)
    /\ pos = 0
    /\ game_id = ParseStart.game_id
    /\ icon_filename = ParseStart.icon_filename
    /\ in_shortcut_section = ParseStart.in_shortcut_section
    /\ result = None
    /\ pc = "Idle" /\ error = None /\ icon_dir_is_dir = TRUE /\ dir = <<>> /\ idx = 0
    /\ sigint_received = FALSE /\ fs = {} /\ cur = None /\ requests = <<>>
    /\ stat_log = <<>> /\ open_log = <<>>

Locals == [game_id |-> game_id, icon_filename |-> icon_filename,
           in_shortcut_section |-> in_shortcut_section, err |-> None]

\* main.rs 122-171: the loop body on the next item; a bail returns Err.
ReadLine ==
    /\ result = None
    /\ pos < Len(lines)
    /\ LET st == ParseLine(Locals, lines[pos + 1], filename)
       IN  /\ pos' = pos + 1
           /\ game_id' = st.game_id
           /\ icon_filename' = st.icon_filename
           /\ in_shortcut_section' = st.in_shortcut_section
           /\ result' = IF IsSome(st.err)
                        THEN Some([kind |-> "Err", err |-> Unwrap(st.err)])
                        ELSE None
    /\ UNCHANGED <<filename, lines>>
    /\ UNCHANGED mvars

\* main.rs 173-177: the iterator is exhausted.
EndOfFile ==
    /\ result = None
    /\ pos = Len(lines)
    /\ result' = Some(ParseFinish(Locals, filename))
    /\ UNCHANGED <<filename, lines, pos, game_id, icon_filename, in_shortcut_section>>
    /\ UNCHANGED mvars

NextParse == ReadLine \/ EndOfFile

SpecParse == InitParse /\ [][NextParse]_vars

\* ----------------------------------------------------------- SpecSection
\* The same loop on files made of section headers and near misses of the
\* header: another case, a space after it, a space before it.
LowerHeader == <<"[", "i", "n", "t", "e", "r", "n", "e", "t", "s", "h", "o", "r", "t", "c", "u", "t", "]">>
TrailingSpaceHeader == SectionHeader \o <<" ">>
LeadingSpaceHeader == <<" ">> \o SectionHeader

SectionPool == {SectionHeader, OtherHeader, LowerHeader, TrailingSpaceHeader,
                LeadingSpaceHeader, Url_7, Icon_a, ReadErr}

InitSection ==
    /\ filename = File_a_url
    /\ lines \in SeqsUpTo(SectionPool, MaxLines)
    /\ pos = 0
    /\ game_id = ParseStart.game_id
    /\ icon_filename = ParseStart.icon_filename
    /\ in_shortcut_section = ParseStart.in_shortcut_section
    /\ result = None
    /\ pc = "Idle" /\ error = None /\ icon_dir_is_dir = TRUE /\ dir = <<>> /\ idx = 0
    /\ sigint_received = FALSE /\ fs = {} /\ cur = None /\ requests = <<>>
    /\ stat_log = <<>> /\ open_log = <<>>

SpecSection == InitSection /\ [][NextParse]_vars

\* ------------------------------------------------- the whole of the parse
\* The line loop run to its end on a whole file: the items from k on.  nx is
\* the locals after item k; the loop stops at the first item that bails.
RECURSIVE ParseFrom(_, _, _, _)
ParseFrom(st, items, k, name) ==
    IF k > Len(items)
    THEN ParseFinish(st, name)
    ELSE CHOOSE r \in {IF IsSome(nx.err)
                        THEN [kind |-> "Err", err |-> Unwrap(nx.err)]
                        ELSE ParseFrom(nx, items, k + 1, name) :
                            nx \in {ParseLine(st, items[k], name)}} : TRUE

\* main.rs 116-178
ParseFile(items, name) == ParseFrom(ParseStart, items, 1, name)

\* ------------------------------------------- the directory of shortcuts
\* What the model's working directory can hold.  Each name has one fixed
\* metadata and content: main never writes to this directory.
File_c_url == <<"c", ".", "u", "r", "l">>
File_d_url == <<"d", ".", "u", "r", "l">>
File_e_url == <<"e", ".", "u", "r", "l">>
File_f_url == <<"f", ".", "u", "r", "l">>
File_notes_txt == <<"n", ".", "t", "x", "t">>
Dir_sub == <<"s", "u", "b">>
Link_l_url == <<"l", ".", "u", "r", "l">>
Pipe_p_url == <<"p", ".", "u", "r", "l">>
File_g_url == <<"g", ".", "u", "r", "l">>
\* An icon name the pattern [^.\\]+\.ico accepts: it holds no backslash and
\* no dot before the extension, and begins with the other separator of
\* Windows paths.
Name_slash_a_ico == <<"/", "a", ".", "i", "c", "o">>
Icon_slash_a == IconPrefix \o LOCAL_ICON_DIR \o Name_slash_a_ico
\* A name that OsString::into_string rejects (main.rs 80).
BadName == <<"<invalid unicode>">>
\* An item of the read_dir iterator that is Err (main.rs 48).
EntryErr == <<"<entry error>">>

\* meta: what entry.metadata() returns ("Err" when it fails); open_ok: whether
\* File::open succeeds; content: what lines() yields.
Disk(name) ==
    CASE name = File_a_url ->
            [meta |-> "File", open_ok |-> TRUE,
             content |-> <<SectionHeader, Url_7, Icon_a>>]
      [] name = File_b_url ->
            [meta |-> "File", open_ok |-> TRUE,
             content |-> <<Prop, SectionHeader, Icon_b, Prop, Url_42>>]
      [] name = File_c_url ->
            [meta |-> "File", open_ok |-> TRUE,
             content |-> <<SectionHeader, Url_42, Icon_a, OtherHeader, Url_7>>]
      [] name = File_d_url ->
            [meta |-> "File", open_ok |-> TRUE,
             content |-> <<Url_7, Icon_a>>]
      [] name = File_e_url ->
            [meta |-> "File", open_ok |-> FALSE, content |-> <<>>]
      [] name = File_f_url ->
            [meta |-> "Err", open_ok |-> FALSE, content |-> <<>>]
      [] name = File_notes_txt ->
            [meta |-> "File", open_ok |-> TRUE,
             content |-> <<SectionHeader, Url_7, Icon_b>>]
      [] name = Dir_sub ->
            [meta |-> "Dir", open_ok |-> FALSE, content |-> <<>>]
      [] name = Link_l_url ->
            [meta |-> "Symlink", open_ok |-> TRUE,
             content |-> <<SectionHeader, Url_7, Icon_b>>]
      [] name = Pipe_p_url ->
            [meta |-> "Other", open_ok |-> TRUE, content |-> <<>>]
      [] name = File_g_url ->
            [meta |-> "File", open_ok |-> TRUE,
             content |-> <<SectionHeader, Url_7, Icon_slash_a>>]
      [] name = BadName ->
            [meta |-> "Dir", open_ok |-> FALSE, content |-> <<>>]


DirPool == {File_a_url, File_b_url, File_c_url, File_d_url, File_e_url, File_f_url,
            File_notes_txt, Dir_sub, Link_l_url, Pipe_p_url, File_g_url, BadName,
            EntryErr}

\* --------------------------------------- extract_game_id_and_icon_filename
\* Mutant of ExtractGameIdAndIconFilename: the name's extension is not looked
\* at, every regular file is opened and parsed.
ExtractAnyRegularFile(name) ==
    IF name = BadName
    THEN [kind |-> "Err", err |-> [msg |-> "Filename contains invalid unicode data"],
          stat |-> FALSE, opened |-> FALSE]
    ELSE IF Disk(name).meta = "Err"
    THEN [kind |-> "Err", err |-> [msg |-> "Failed to read metadata"],
          stat |-> TRUE, opened |-> FALSE]
    ELSE IF Disk(name).meta # "File"
    THEN [kind |-> "Skip", stat |-> TRUE, opened |-> FALSE]
    ELSE IF ~Disk(name).open_ok
    THEN [kind |-> "Err", err |-> [msg |-> "Failed to open file"],
          stat |-> TRUE, opened |-> FALSE]
    ELSE LET r == ParseFile(Disk(name).content, name)
         IN  IF r.kind = "Pair"
             THEN [kind |-> "Pair", game_id |-> r.game_id,
                   icon_filename |-> r.icon_filename, stat |-> TRUE, opened |-> TRUE]
             ELSE [kind |-> "Err", err |-> r.err, stat |-> TRUE, opened |-> TRUE]

\* main.rs 78-178 on one directory entry.  stat and opened tell whether the
\* call read the entry's metadata and opened its content.
ExtractGameIdAndIconFilename(name) ==
    IF name = BadName
    THEN [kind |-> "Err", err |-> [msg |-> "Filename contains invalid unicode data"],
          stat |-> FALSE, opened |-> FALSE]
    ELSE IF Disk(name).meta = "Err"
    THEN [kind |-> "Err", err |-> [msg |-> "Failed to read metadata"],
          stat |-> TRUE, opened |-> FALSE]
    ELSE IF Disk(name).meta = "Dir"
    THEN [kind |-> "Skip", stat |-> TRUE, opened |-> FALSE]
    ELSE IF Disk(name).meta = "Symlink"
    THEN [kind |-> "Skip", stat |-> TRUE, opened |-> FALSE]
    ELSE IF Disk(name).meta # "File"
    THEN [kind |-> "Skip", stat |-> TRUE, opened |-> FALSE]
    ELSE IF ~EndsWith(name, UrlExt)
    THEN [kind |-> "Skip", stat |-> TRUE, opened |-> FALSE]
    ELSE IF ~Disk(name).open_ok
    THEN [kind |-> "Err", err |-> [msg |-> "Failed to open file"],
          stat |-> TRUE, opened |-> FALSE]
    ELSE LET r == ParseFile(Disk(name).content, name)
         IN  IF r.kind = "Pair"
             THEN [kind |-> "Pair", game_id |-> r.game_id,
                   icon_filename |-> r.icon_filename, stat |-> TRUE, opened |-> TRUE]
             ELSE IF r.kind = "Err"
             THEN [kind |-> "Err", err |-> r.err, stat |-> TRUE, opened |-> TRUE]
             ELSE [kind |-> "Skip", stat |-> TRUE, opened |-> TRUE]

\* ------------------------------------------------------ paths and URLs
Letters == {"a", "b", "c", "d", "e", "f", "g", "h", "i", "j", "k", "l", "m", "n", "o",
            "p", "q", "r", "s", "t", "u", "v", "w", "x", "y", "z",
            "A", "B", "C", "D", "E", "F", "G", "H", "I", "J", "K", "L", "M", "N", "O",
            "P", "Q", "R", "S", "T", "U", "V", "W", "X", "Y", "Z"}

\* main.rs 56: PathBuf::join on Windows, for a base that ends with a
\* separator.  A name with a drive prefix replaces the base; a name with a
\* root and no prefix keeps only the base's drive; any other name is appended.
PathJoin(base, name) ==
    IF Len(name) >= 2 /\ name[1] \in Letters /\ name[2] = ":"
    THEN name
    ELSE IF Len(name) >= 1 /\ name[1] \in {"/", "\\"}
    THEN SubSeq(base, 1, 2) \o name
    ELSE base \o name

\* main.rs 63
CdnPrefix == <<"h", "t", "t", "p", "s", ":", "/", "/", "c", "d", "n", ".", "c", "l", "o", "u", "d", "f", "l", "a", "r", "e", ".", "s", "t", "e", "a", "m", "s", "t", "a", "t", "i", "c", ".", "c", "o", "m", "/", "s", "t", "e", "a", "m", "c", "o", "m", "m", "u", "n", "i", "t", "y", "/", "p", "u", "b", "l", "i", "c", "/", "i", "m", "a", "g", "e", "s", "/", "a", "p", "p", "s", "/">>

IconUrl(id, name) == CdnPrefix \o id \o <<"/">> \o name

\* ------------------------------------------------------ the file system
\* Path::exists (main.rs 57)
Exists(files, path) == \E f \in files : f.path = path

FileAt(files, path) == CHOOSE f \in files : f.path = path

\* The paths another process may create a file at while main runs, and the
\* bytes it writes.
OtherPaths == {PathJoin(LOCAL_ICON_DIR, Name_a_ico), PathJoin(LOCAL_ICON_DIR, Name_b_ico)}
OtherBytes == <<7, 7, 7>>

\* The response bodies the CDN may answer with.
Bodies == {<<10, 20>>, <<30>>}

\* The bytes of a file that is in the icon directory before main starts.
PreBytes == <<1>>

\* ------------------------------------------------------------------ Spec
InjectiveSeqs(S, n) ==
    {q \in SeqsUpTo(S, n) : \A i, j \in 1..Len(q) : i # j => q[i] # q[j]}

\* main.rs 28: logging and the SIGINT handler are set up, nothing else is done.
Init ==
    /\ pc = "Start"
    /\ error = None
    /\ icon_dir_is_dir \in BOOLEAN
    /\ dir \in InjectiveSeqs(DirPool, MaxEntries)
    /\ idx = 0
    /\ sigint_received = FALSE
    /\ fs \in {{[path |-> p, bytes |-> PreBytes, by |-> "pre"] : p \in P} :
                    P \in IF icon_dir_is_dir THEN SUBSET OtherPaths ELSE {{}}}
    /\ cur = None
    /\ requests = <<>>
    /\ stat_log = <<>>
    /\ open_log = <<>>
    /\ filename = <<>> /\ lines = <<>> /\ pos = 0 /\ game_id = None
    /\ icon_filename = None /\ in_shortcut_section = FALSE /\ result = None

\* Mutant of Fail: the error is recorded and the loop goes on.
FailAndContinue(e) == pc' = "Loop" /\ error' = Some(e)

\* `?` and bail! in main: main returns the error.
Fail(e) == pc' = "Failed" /\ error' = Some(e)

\* Mutant of IconDirMissing: the icon directory is not checked.
IconDirNotChecked(is_dir) == FALSE

\* main.rs 39: !local_icon_dir.is_dir()
IconDirMissing(is_dir) == ~is_dir

\* main.rs 31-44: the icon directory check and the opening of the working
\* directory (read_dir may fail).
Start ==
    /\ pc = "Start"
    /\ \E read_dir_ok \in BOOLEAN :
          IF IconDirMissing(icon_dir_is_dir)
          THEN Fail([msg |-> "Specified local icon directory is not actually a directory"])
          ELSE IF ~read_dir_ok
          THEN Fail([msg |-> "read_dir failed"])
          ELSE pc' = "Loop" /\ error' = error
    /\ UNCHANGED <<icon_dir_is_dir, dir, idx, sigint_received, fs, cur, requests,
                   stat_log, open_log>>
    /\ UNCHANGED pvars

\* main.rs 44, 74: the iterator is exhausted, main returns Ok(()).
LoopEnd ==
    /\ pc = "Loop"
    /\ idx = Len(dir)
    /\ pc' = "Done"
    /\ UNCHANGED <<error, icon_dir_is_dir, dir, idx, sigint_received, fs, cur, requests,
                   stat_log, open_log>>
    /\ UNCHANGED pvars

\* Mutant of CheckSigint: the flag is not looked at.
CheckSigintNever(flag) == FALSE

\* main.rs 206-212: TRUE when the checker returns the error.
CheckSigint(flag) == flag

\* Mutant of IconIsPresent: the existence check is skipped.
IconIsPresentNever(files, path) == FALSE

\* main.rs 57
IconIsPresent(files, path) == Exists(files, path)

\* Mutant of AwaitDownload: the download is spawned and the loop goes on.
SpawnDownload == "Loop"

\* main.rs 66: `.await` - main waits for the response before anything else.
AwaitDownload == "Fetching"

\* main.rs 44-66: one iteration up to the point where the request is sent.
Iterate ==
    /\ pc = "Loop"
    /\ idx < Len(dir)
    /\ idx' = idx + 1
    /\ LET entry == dir[idx + 1]
       IN  IF CheckSigint(sigint_received)
           THEN /\ Fail([msg |-> "Stopping script due to SIGINT"])
                /\ UNCHANGED <<cur, requests, stat_log, open_log>>
           ELSE IF entry = EntryErr
           THEN /\ Fail([msg |-> "read_dir entry error"])
                /\ UNCHANGED <<cur, requests, stat_log, open_log>>
           ELSE \E r \in {ExtractGameIdAndIconFilename(entry)} :
                /\ stat_log' = IF r.stat THEN Append(stat_log, entry) ELSE stat_log
                /\ open_log' = IF r.opened THEN Append(open_log, entry) ELSE open_log
                /\ IF r.kind = "Err"
                   THEN Fail(r.err) /\ UNCHANGED <<cur, requests>>
                   ELSE IF r.kind = "Skip"
                   THEN UNCHANGED <<pc, error, cur, requests>>
                   ELSE LET icon_path == PathJoin(LOCAL_ICON_DIR, r.icon_filename)
                        IN  IF IconIsPresent(fs, icon_path)
                            THEN UNCHANGED <<pc, error, cur, requests>>
                            ELSE /\ pc' = AwaitDownload
                                 /\ error' = error
                                 /\ cur' = Some([game_id |-> r.game_id,
                                                 icon_filename |-> r.icon_filename,
                                                 icon_path |-> icon_path,
                                                 body |-> None])
                                 /\ requests' = Append(requests,
                                                       IconUrl(r.game_id, r.icon_filename))
    /\ UNCHANGED <<icon_dir_is_dir, dir, sigint_received, fs>>
    /\ UNCHANGED pvars

\* Mutant of FetchFails: a failed request is sent again (twice at most).
FetchFailsRetry ==
    /\ pc = "Fetching"
    /\ IF Len(requests) < 3
       THEN /\ requests' = Append(requests, IconUrl(Unwrap(cur).game_id,
                                                     Unwrap(cur).icon_filename))
            /\ UNCHANGED <<pc, error>>
       ELSE Fail([msg |-> "request failed"]) /\ requests' = requests
    /\ UNCHANGED <<icon_dir_is_dir, dir, idx, sigint_received, fs, cur, stat_log, open_log>>
    /\ UNCHANGED pvars

\* main.rs 66: the request or the reading of the body fails.
FetchFails ==
    /\ pc = "Fetching"
    /\ Fail([msg |-> "request failed"])
    /\ UNCHANGED <<icon_dir_is_dir, dir, idx, sigint_received, fs, cur, requests,
                   stat_log, open_log>>
    /\ UNCHANGED pvars

\* main.rs 66: the whole body has arrived.
FetchReturns ==
    /\ pc = "Fetching"
    /\ \E body \in Bodies : cur' = Some([Unwrap(cur) EXCEPT !.body = Some(body)])
    /\ pc' = "Creating"
    /\ UNCHANGED <<error, icon_dir_is_dir, dir, idx, sigint_received, fs, requests,
                   stat_log, open_log>>
    /\ UNCHANGED pvars

\* Mutant of CreateNewFails: File::create, which truncates a file that exists.
CreateTruncates(files, path, os_ok) == ~os_ok

\* main.rs 69: File::create_new fails when the path exists, or when the
\* system refuses for another reason.
CreateNewFails(files, path, os_ok) == Exists(files, path) \/ ~os_ok

\* main.rs 69
CreateNew ==
    /\ pc = "Creating"
    /\ \E os_ok \in BOOLEAN :
          LET path == Unwrap(cur).icon_path
          IN  IF CreateNewFails(fs, path, os_ok)
              THEN Fail([msg |-> "Failed to save icon file"]) /\ fs' = fs
              ELSE /\ pc' = "Writing"
                   /\ error' = error
                   /\ fs' = {f \in fs : f.path # path}
                            \cup {[path |-> path, bytes |-> <<>>, by |-> "run"]}
    /\ UNCHANGED <<icon_dir_is_dir, dir, idx, sigint_received, cur, requests,
                   stat_log, open_log>>
    /\ UNCHANGED pvars

\* main.rs 70-71: write_all writes the whole body, or fails having written
\* the first n bytes of it.
WriteAll ==
    /\ pc = "Writing"
    /\ LET path == Unwrap(cur).icon_path
           body == Unwrap(Unwrap(cur).body)
       IN  \E n \in 0..Len(body) :
              /\ fs' = {f \in fs : f.path # path}
                       \cup {[path |-> path, bytes |-> SubSeq(body, 1, n), by |-> "run"]}
              /\ IF n = Len(body)
                 THEN pc' = "Loop" /\ error' = error
                 ELSE Fail([msg |-> "Failed to write ICO contents to the newly created file"])
    /\ UNCHANGED <<icon_dir_is_dir, dir, idx, sigint_received, cur, requests,
                   stat_log, open_log>>
    /\ UNCHANGED pvars

Running == pc \notin {"Done", "Failed"}

\* Mutant of SigintHandler: the handler ends the process itself.
SigintHandlerExits ==
    /\ Running
    /\ sigint_received' = TRUE
    /\ pc' = "Failed"
    /\ error' = Some([msg |-> "Stopping script due to SIGINT"])
    /\ UNCHANGED <<icon_dir_is_dir, dir, idx, fs, cur, requests, stat_log, open_log>>
    /\ UNCHANGED pvars

\* Mutant of SigintHandler: the handler flips the flag, a second Ctrl-C
\* clears it.
SigintHandlerToggles ==
    /\ Running
    /\ sigint_received' = ~sigint_received
    /\ UNCHANGED <<pc, error, icon_dir_is_dir, dir, idx, fs, cur, requests,
                   stat_log, open_log>>
    /\ UNCHANGED pvars

\* main.rs 200-203: the handler installed with ctrlc::set_handler.
SigintHandler ==
    /\ Running
    /\ sigint_received' = TRUE
    /\ UNCHANGED <<pc, error, icon_dir_is_dir, dir, idx, fs, cur, requests,
                   stat_log, open_log>>
    /\ UNCHANGED pvars

\* Another process creates a file in the icon directory, while main runs or
\* after it has returned.
OtherCreates ==
    /\ icon_dir_is_dir
    /\ \E p \in OtherPaths :
          /\ ~Exists(fs, p)
          /\ fs' = fs \cup {[path |-> p, bytes |-> OtherBytes, by |-> "other"]}
    /\ UNCHANGED <<pc, error, icon_dir_is_dir, dir, idx, sigint_received, cur, requests,
                   stat_log, open_log>>
    /\ UNCHANGED pvars

Next ==
    \/ Start
    \/ LoopEnd
    \/ Iterate
    \/ FetchFails
    \/ FetchReturns
    \/ CreateNew
    \/ WriteAll
    \/ SigintHandler
    \/ OtherCreates

Spec == Init /\ [][Next]_vars

\* main is a single task that nothing blocks but the download: each of its
\* steps is taken once it can be, and a request that was sent returns, with
\* a body or with an error.  The handler and the other process owe nothing.
\* The entries of the runs whose termination is checked: two shortcuts to
\* download, a shortcut that does not parse, a directory, an entry error.
FairPool == {File_a_url, File_b_url, File_d_url, Dir_sub, EntryErr}

InitFair == Init /\ dir \in InjectiveSeqs(FairPool, MaxEntries)

SpecFair ==
    /\ InitFair
    /\ [][Next]_vars
    /\ WF_vars(Start)
    /\ WF_vars(LoopEnd)
    /\ WF_vars(Iterate)
    /\ WF_vars(FetchFails \/ FetchReturns)
    /\ WF_vars(CreateNew)
    /\ WF_vars(WriteAll)

\* ===================================================== claims on SpecParse
\* What the claims say of a file, stated on its lines alone.
IsHeaderLike(item) == item # ReadErr /\ StartsWith(item, <<"[">>)

\* Line j lies inside the target section: some earlier line is the exact
\* header and no line between them begins with `[` without being the header.
InSection(items, j) ==
    \E h \in 1..(j - 1) :
        /\ items[h] = SectionHeader
        /\ \A k \in (h + 1)..(j - 1) : ~(IsHeaderLike(items[k]) /\ items[k] # SectionHeader)

\* URL=steam://rungameid/<digits>
UrlShape(item) ==
    /\ item # ReadErr
    /\ StartsWith(item, UrlPrefix)
    /\ Len(item) > Len(UrlPrefix)
    /\ \A k \in (Len(UrlPrefix) + 1)..Len(item) : item[k] \in Digits

\* IconFile=<d><basename>.ico for the directory d, <basename> without
\* separator or dot
IconShapeIn(item, d) ==
    /\ item # ReadErr
    /\ StartsWith(item, IconPrefix \o d)
    /\ EndsWith(item, IcoSuffix)
    /\ Len(item) > Len(IconPrefix \o d) + Len(IcoSuffix)
    /\ \A k \in (Len(IconPrefix \o d) + 1)..(Len(item) - Len(IcoSuffix)) :
            item[k] \notin {".", "\\"}

\* IconFile=<dir><basename>.ico for some directory prefix <dir>, a text that
\* ends with the path separator
IconShape(item) ==
    /\ item # ReadErr
    /\ \E n \in (Len(IconPrefix) + 1)..Len(item) :
          /\ item[n] = "\\"
          /\ IconShapeIn(item, SubSeq(item, Len(IconPrefix) + 1, n))

\* the <dir> of a line of that form
IconDirOf(item) ==
    LET n == CHOOSE n \in (Len(IconPrefix) + 1)..Len(item) :
                /\ item[n] = "\\"
                /\ IconShapeIn(item, SubSeq(item, Len(IconPrefix) + 1, n))
    IN  SubSeq(item, Len(IconPrefix) + 1, n)

Unrecognized(item) ==
    item # ReadErr /\ ~IsHeaderLike(item) /\ ~UrlShape(item) /\ ~IconShape(item)

InSectionUrls(items) == {j \in 1..Len(items) : UrlShape(items[j]) /\ InSection(items, j)}
InSectionIcons(items) == {j \in 1..Len(items) : IconShape(items[j]) /\ InSection(items, j)}

\* The second smallest element of a set of positions with two or more.
Second(S) == CHOOSE j \in S : Cardinality({i \in S : i < j}) = 1

Finished == result # None
Returned == Unwrap(result)

ErrNotParsed ==
    [kind |-> "Err",
     err |-> [msg |-> "Shortcut could not be parsed or was not a Steam shortcut file",
              filename |-> filename]]
ErrGameIdSet ==
    [kind |-> "Err", err |-> [msg |-> "Game ID already set for shortcut", filename |-> filename]]
ErrIconSet ==
    [kind |-> "Err",
     err |-> [msg |-> "Icon path and/or name already set for shortcut", filename |-> filename]]
ErrIconDir(d) ==
    [kind |-> "Err",
     err |-> [msg |-> "Unrecognized icon directory", icon_dir |-> d, filename |-> filename]]
ErrReadLine == [kind |-> "Err", err |-> [msg |-> "Failed to read line"]]

\* C1: a file made of the exact header, then one URL=steam://rungameid/<digits>
\* line and one IconFile=<LOCAL_ICON_DIR><basename>.ico line in either order,
\* with unrecognized lines not beginning with `[` anywhere around them, parses
\* to exactly (<digits>, <basename>.ico).
C1_Shape(items, h, u, c) ==
    /\ items[h] = SectionHeader
    /\ h < u /\ h < c
    /\ UrlShape(items[u])
    /\ IconShapeIn(items[c], LOCAL_ICON_DIR)
    /\ \A k \in (1..Len(items)) \ {h, u, c} : Unrecognized(items[k])

C1_HeaderUrlIconYieldsPair ==
    Finished =>
        \A h, u, c \in 1..Len(lines) :
            C1_Shape(lines, h, u, c) =>
                Returned = [kind |-> "Pair",
                            game_id |-> DropPrefix(lines[u], UrlPrefix),
                            icon_filename |-> DropPrefix(lines[c], IconPrefix \o LOCAL_ICON_DIR)]

C1_Witness ==
    /\ Finished
    /\ Returned.kind = "Pair"
    /\ \E h, u, c \in 1..Len(lines) : C1_Shape(lines, h, u, c) /\ c < u
    /\ \E k \in 1..Len(lines) : Unrecognized(lines[k])

AllReadable(items) == \A k \in 1..Len(items) : items[k] # ReadErr

NoHeader(items) == \A k \in 1..Len(items) : items[k] # SectionHeader

\* C2 as stated (for files with at least one line, all of them readable): a
\* file whose lines never contain the exact header [InternetShortcut] parses
\* to "not applicable" (Ok(None)).
C2_Original_NoHeaderIsSkipped ==
    (Finished /\ NoHeader(lines) /\ Len(lines) > 0 /\ AllReadable(lines)) =>
        Returned.kind = "Skip"

\* C2 amended: a file whose lines never contain the exact header never yields
\* a field value and is never skipped: the parse ends in the "could not be
\* parsed or was not a Steam shortcut file" error naming the file, or in the
\* error of a line that cannot be read.
C2_NoHeaderFails ==
    NoHeader(lines) =>
        /\ IsNone(game_id) /\ IsNone(icon_filename) /\ ~in_shortcut_section
        /\ Finished => \/ Returned = ErrNotParsed
                       \/ Returned = ErrReadLine

C2_Witness ==
    /\ Finished
    /\ NoHeader(lines)
    /\ \E u, c \in 1..Len(lines) : UrlShape(lines[u]) /\ IconShapeIn(lines[c], LOCAL_ICON_DIR)
    /\ Returned = ErrNotParsed

\* C3: when every line is consumed and the key or the icon filename is unset
\* (no URL= line or no IconFile= line inside the target section, among them
\* the file with no line at all), the parse returns the "could not be parsed or
\* was not a Steam shortcut file" error naming the file: no skip, no pair.
C3_IncompleteFails ==
    [][(/\ result = None
        /\ pos = Len(lines)
        /\ \/ IsNone(game_id)
           \/ IsNone(icon_filename)
           \/ InSectionUrls(lines) = {}
           \/ InSectionIcons(lines) = {})
       => result' = Some(ErrNotParsed)]_vars

C3_Witness ==
    /\ Finished
    /\ Returned = ErrNotParsed
    /\ InSectionUrls(lines) # {}
    /\ InSectionIcons(lines) = {}
    /\ \E k \in 1..Len(lines) : lines[k] = SectionHeader

\* C4 as stated (for files whose lines can all be read): two URL= lines inside
\* the target section end the parse in the duplicate-key error, two IconFile=
\* lines inside it in the duplicate-icon error.
C4_Original_DuplicatesNamed ==
    (Finished /\ AllReadable(lines)) =>
        /\ Cardinality(InSectionUrls(lines)) >= 2 => Returned = ErrGameIdSet
        /\ Cardinality(InSectionIcons(lines)) >= 2 => Returned = ErrIconSet

\* C4 amended: a file with two URL= lines inside the target section (in one
\* occurrence of the section or in two) always fails, at the second of them
\* at the latest: with the duplicate-key error when the parse reaches that
\* line, and otherwise with the error an earlier line raised (duplicate icon,
\* unrecognized icon directory, unreadable line).  Likewise for two IconFile=
\* lines and the duplicate-icon error, where the earlier error may be the
\* first IconFile= line naming another directory.
C4_DuplicateFails ==
    Finished =>
        /\ Cardinality(InSectionUrls(lines)) >= 2 =>
              LET second == Second(InSectionUrls(lines))
              IN  /\ Returned.kind = "Err"
                  /\ pos <= second
                  /\ pos = second => Returned = ErrGameIdSet
                  /\ pos < second =>
                        \/ Returned = ErrIconSet
                        \/ Returned = ErrReadLine
                        \/ \E k \in 1..pos : IconShape(lines[k]) /\ Returned = ErrIconDir(IconDirOf(lines[k]))
        /\ Cardinality(InSectionIcons(lines)) >= 2 =>
              LET second == Second(InSectionIcons(lines))
              IN  /\ Returned.kind = "Err"
                  /\ pos <= second
                  /\ pos = second => Returned = ErrIconSet
                  /\ pos < second =>
                        \/ Returned = ErrGameIdSet
                        \/ Returned = ErrReadLine
                        \/ \E k \in 1..pos : IconShape(lines[k]) /\ Returned = ErrIconDir(IconDirOf(lines[k]))

\* two URL= lines in two occurrences of the section, the error raised at the
\* second
C4_Witness ==
    /\ Finished
    /\ Returned = ErrGameIdSet
    /\ Cardinality(InSectionUrls(lines)) >= 2
    /\ \E k \in 1..Len(lines) :
          /\ lines[k] = SectionHeader
          /\ \E i \in InSectionUrls(lines) : i < k
          /\ \E j \in InSectionUrls(lines) : j > k

\* C5 as stated: every IconFile=<dir><basename>.ico line inside the target
\* section whose <dir> differs from LOCAL_ICON_DIR ends the parse in the
\* "unrecognized icon directory" error, whatever came before it.
C5_Original_WrongDirRejected ==
    (/\ pos >= 1
     /\ InSection(lines, pos)
     /\ IconShape(lines[pos])
     /\ IconDirOf(lines[pos]) # LOCAL_ICON_DIR)
    => (Finished /\ Returned = ErrIconDir(IconDirOf(lines[pos])))

EarlierIcons(items, j) == {k \in InSectionIcons(items) : k < j}

\* C5 amended: a line of the form IconFile=<dir><basename>.ico that the parse
\* reaches inside the target section, with <dir> other than LOCAL_ICON_DIR,
\* ends the parse: in the "unrecognized icon directory" error naming <dir> and
\* the file when no IconFile= line of the section came before it (whatever
\* the state of the key), and in the duplicate-icon error when one did.
C5_WrongDirFails ==
    (/\ pos >= 1
     /\ InSection(lines, pos)
     /\ IconShape(lines[pos])
     /\ IconDirOf(lines[pos]) # LOCAL_ICON_DIR)
    => /\ Finished
       /\ EarlierIcons(lines, pos) = {} => Returned = ErrIconDir(IconDirOf(lines[pos]))
       /\ EarlierIcons(lines, pos) # {} => Returned = ErrIconSet

\* the wrong directory is met with the key already set
C5_Witness ==
    /\ pos >= 2
    /\ InSection(lines, pos)
    /\ IconShape(lines[pos])
    /\ IconDirOf(lines[pos]) # LOCAL_ICON_DIR
    /\ IsSome(game_id)
    /\ Finished
    /\ Returned = ErrIconDir(OtherDir)

\* C6: a line read outside the target section that is not the exact header
\* changes neither key, iconFilename nor the section flag and raises no error,
\* even when it has the form of a URL= or IconFile= line.
C6_OutsideSectionIgnored ==
    [][(/\ result = None
        /\ pos < Len(lines)
        /\ lines[pos + 1] # ReadErr
        /\ lines[pos + 1] # SectionHeader
        /\ ~InSection(lines, pos + 1))
       => (/\ pos' = pos + 1
           /\ game_id' = game_id
           /\ icon_filename' = icon_filename
           /\ in_shortcut_section' = in_shortcut_section
           /\ ~in_shortcut_section'
           /\ result' = None)]_vars

\* a second URL= line, read after another section began, was passed over
C6_Witness ==
    /\ result = None
    /\ IsSome(game_id)
    /\ \E i, h, j \in 1..pos :
          /\ i < h /\ h < j
          /\ i \in InSectionUrls(lines)
          /\ lines[h] = OtherHeader
          /\ ~InSection(lines, j) /\ UrlShape(lines[j])

\* ========================================================== claims on Spec
\* The icon file a shortcut of the working directory declares, read off its
\* content by hand (Disk), and the path it is to be saved at.
DeclaredIcon(name) ==
    CASE name = File_a_url -> Name_a_ico
      [] name = File_b_url -> Name_b_ico
      [] name = File_c_url -> Name_a_ico
      [] name = File_g_url -> Name_slash_a_ico

Shortcuts == {File_a_url, File_b_url, File_c_url, File_g_url}

Destination(name) == LOCAL_ICON_DIR \o DeclaredIcon(name)

ByRun(files) == {f \in files : f.by = "run"}
NotByOther(files) == {f \in files : f.by # "other"}

ErrSigint == [msg |-> "Stopping script due to SIGINT"]

\* C7: an iteration that finds a file at the destination path sends no request,
\* changes no file and goes on to the next entry without error; and a run in
\* which the icon of every shortcut was there from the start sends no request
\* and creates no file.
C7_ExistingIconSkipped ==
    /\ [][(/\ pc = "Loop"
           /\ idx' = idx + 1
           /\ ~sigint_received
           /\ dir[idx + 1] \in Shortcuts
           /\ Exists(fs, Destination(dir[idx + 1])))
          => (/\ requests' = requests
              /\ fs' = fs
              /\ pc' = "Loop"
              /\ error' = None)]_vars
    /\ []((\A k \in 1..Len(dir) :
              dir[k] \in Shortcuts =>
                  \E f \in fs : f.by = "pre" /\ f.path = Destination(dir[k]))
          => (requests = <<>> /\ ByRun(fs) = {}))

\* both shortcuts of the directory were parsed, their icons were there, the
\* run ended without a request
C7_Witness ==
    /\ pc = "Done"
    /\ dir = <<File_a_url, File_b_url>>
    /\ open_log = dir
    /\ requests = <<>>
    /\ \A k \in 1..2 : \E f \in fs : f.path = Destination(dir[k]) /\ f.bytes = PreBytes

\* C8: the run never overwrites, truncates or removes a file of the icon
\* directory (it writes only to the file it has just created); when the
\* destination exists at the time of File::create_new, whoever made it, the
\* creation fails, the run ends in the "Failed to save icon file" error and
\* the files are as they were.
C8_NoClobber ==
    [][/\ \A f \in fs :
            (f.by # "run" \/ pc # "Writing" \/ f.path # Unwrap(cur).icon_path) => f \in fs'
       /\ (pc = "Creating" /\ pc' # pc /\ Exists(fs, Unwrap(cur).icon_path))
          => (/\ pc' = "Failed"
              /\ error' = Some([msg |-> "Failed to save icon file"])
              /\ fs' = fs)]_vars

\* the other process created the destination while the download was under way
C8_Witness ==
    /\ pc = "Failed"
    /\ error = Some([msg |-> "Failed to save icon file"])
    /\ Len(requests) = 1
    /\ \E f \in fs : f.by = "other" /\ f.path = Unwrap(cur).icon_path /\ f.bytes = OtherBytes

\* C9: an iteration that begins with the interrupt flag set ends the run in
\* the "Stopping script due to SIGINT" error without reading the entry's
\* metadata or content, without a request and without a change to a file; and
\* after that error the run does nothing more.
C9_SigintStopsRun ==
    [][/\ (pc = "Loop" /\ idx' = idx + 1 /\ sigint_received)
          => (/\ pc' = "Failed"
              /\ error' = Some(ErrSigint)
              /\ stat_log' = stat_log
              /\ open_log' = open_log
              /\ requests' = requests
              /\ fs' = fs)
       /\ (error = Some(ErrSigint))
          => (/\ UNCHANGED <<pc, error, idx, requests, stat_log, open_log, cur>>
              /\ NotByOther(fs') = NotByOther(fs))]_vars

\* the first entry was handled, the flag was set meanwhile, and the second
\* entry (one that cannot even be read) ended the run with the interrupt error
C9_Witness ==
    /\ pc = "Failed"
    /\ error = Some(ErrSigint)
    /\ idx = 2
    /\ dir[2] \in {EntryErr, File_f_url, BadName}
    /\ Len(stat_log) = 1

\* The entries of the working directory whose handling is a fatal error
\* (Disk): an entry that cannot be read, a name that is not Unicode, metadata
\* that cannot be read, a file that cannot be opened, a file without section.
FatalEntries == {EntryErr, BadName, File_f_url, File_e_url, File_d_url}

\* C10: a fatal error (entry, metadata, open, parse, network, file creation,
\* file write) ends the run at once: main is in its failed state whenever it
\* has an error, an iteration on a fatal entry leads there, and from then on no entry is read or parsed, no request is sent, no file
\* is created or changed by the run; no step ever removes or changes a file
\* an earlier iteration wrote.
C10_StopsAtFirstError ==
    [][/\ IsSome(error') => pc' = "Failed"
       /\ (pc = "Loop" /\ idx' = idx + 1 /\ dir[idx + 1] \in FatalEntries) => pc' = "Failed"
       /\ pc = "Failed"
          => (/\ UNCHANGED <<pc, error, idx, requests, stat_log, open_log, cur>>
              /\ NotByOther(fs') = NotByOther(fs))
       /\ \A f \in ByRun(fs) : pc # "Writing" => f \in fs']_vars

\* the first shortcut's icon was downloaded and written, the second entry
\* failed to parse, the icon is still there in full
C10_Witness ==
    /\ pc = "Failed"
    /\ idx = 2
    /\ dir[2] = File_d_url
    /\ error = Some([msg |-> "Shortcut could not be parsed or was not a Steam shortcut file",
                     filename |-> File_d_url])
    /\ \E f \in fs : f.by = "run" /\ f.path = Destination(dir[1]) /\ f.bytes \in Bodies

\* C11: when LOCAL_ICON_DIR is not a directory at start-up the run fails with
\* "Specified local icon directory is not actually a directory" before the
\* working directory is opened: no entry is taken from it, no metadata is
\* read, no file is parsed, no request is sent and no file is created.
C11_MissingIconDirFailsFirst ==
    ~icon_dir_is_dir =>
        /\ pc \in {"Start", "Failed"}
        /\ pc = "Failed" =>
              error = Some([msg |-> "Specified local icon directory is not actually a directory"])
        /\ idx = 0
        /\ stat_log = <<>>
        /\ open_log = <<>>
        /\ requests = <<>>
        /\ ByRun(fs) = {}

\* the run has failed on the icon directory with two shortcuts waiting
C11_Witness ==
    /\ ~icon_dir_is_dir
    /\ pc = "Failed"
    /\ dir = <<File_a_url, File_b_url>>
    /\ idx = 0

\* The entries the eligibility filter is to pass over, by what the disk holds:
\* a directory, a symlink, another non-regular file, a regular file whose
\* name does not end with .url.
Ineligible(name) ==
    /\ name # EntryErr
    /\ \/ Disk(name).meta \in {"Dir", "Symlink", "Other"}
       \/ Disk(name).meta = "File" /\ ~EndsWith(name, UrlExt)

\* C12 as stated: an entry that is a directory, a symlink, another non-regular
\* file or a regular file without the .url extension is never a fatal error
\* (the run can only have failed on it by the interrupt check).
C12_Original_IneligibleNeverFatal ==
    (pc = "Failed" /\ idx >= 1 /\ Ineligible(dir[idx])) => error = Some(ErrSigint)

\* C12 amended: an entry whose name is valid Unicode and that is a directory,
\* a symlink, another non-regular file or a regular file without the .url
\* extension is skipped: its metadata is read, its content is not opened, no
\* request is sent, no file changes and the run goes on without error.  An
\* entry whose name is not valid Unicode is a fatal error before its type is
\* looked at.
C12_IneligibleSkipped ==
    [][(pc = "Loop" /\ idx' = idx + 1 /\ ~sigint_received /\ Ineligible(dir[idx + 1]))
       => IF dir[idx + 1] = BadName
          THEN /\ pc' = "Failed"
               /\ error' = Some([msg |-> "Filename contains invalid unicode data"])
               /\ stat_log' = stat_log
               /\ open_log' = open_log
          ELSE /\ pc' = "Loop"
               /\ error' = None
               /\ stat_log' = Append(stat_log, dir[idx + 1])
               /\ open_log' = open_log
               /\ requests' = requests
               /\ fs' = fs]_vars

\* a file that holds a complete shortcut but is not named .url was passed
\* over, and so was a symlink named .url
C12_Witness ==
    /\ pc = "Done"
    /\ dir = <<File_notes_txt, Link_l_url>>
    /\ stat_log = dir
    /\ open_log = <<>>
    /\ requests = <<>>

Separators == {"/", "\\"}

HasNoSeparator(name) == \A k \in 1..Len(name) : name[k] \notin Separators

\* C13 as stated: the icon filename of every shortcut the run goes on with
\* holds no path separator, and every file the run creates lies directly
\* inside LOCAL_ICON_DIR.
C13_Original_IconInsideIconDir ==
    /\ IsSome(cur) =>
          /\ HasNoSeparator(Unwrap(cur).icon_filename)
          /\ Unwrap(cur).icon_path = LOCAL_ICON_DIR \o Unwrap(cur).icon_filename
    /\ \A f \in ByRun(fs) :
          /\ StartsWith(f.path, LOCAL_ICON_DIR)
          /\ HasNoSeparator(DropPrefix(f.path, LOCAL_ICON_DIR))

InProgress == pc \in {"Fetching", "Creating", "Writing"}

\* C14: the interrupt does not cut short the entry being processed.  The step
\* that sets the flag changes nothing else; the interrupt error arises only
\* at the top of an iteration; while a download, a creation or a write is
\* pending the run neither leaves that entry nor removes a file it wrote,
\* flag set or not; and with the flag set and no entry left, the run ends
\* without error.
C14_InterruptNotMidEntry ==
    [][/\ sigint_received' # sigint_received
          => UNCHANGED <<pc, error, idx, cur, requests, stat_log, open_log, fs>>
       /\ (error' = Some(ErrSigint) /\ error = None)
          => (pc = "Loop" /\ idx' = idx + 1 /\ sigint_received)
       /\ (InProgress /\ sigint_received)
          => (/\ idx' = idx
              /\ requests' = requests
              /\ error' # Some(ErrSigint)
              /\ \A f \in ByRun(fs) : \E g \in ByRun(fs') : g.path = f.path)
       /\ (pc = "Loop" /\ idx = Len(dir) /\ sigint_received /\ pc' # pc)
          => (pc' = "Done" /\ error' = None)]_vars

\* the flag was set after the last entry's iteration began; its icon was
\* downloaded and written in full, and the run ended without error
C14_Witness ==
    /\ pc = "Done"
    /\ sigint_received
    /\ error = None
    /\ Len(dir) = 1
    /\ Len(requests) = 1
    /\ \E f \in ByRun(fs) :
          f.path = Unwrap(cur).icon_path /\ f.bytes = Unwrap(Unwrap(cur).body)

\* C15: the interrupt flag starts false and never goes from true to false; the
\* step that changes it is the handler's, which touches nothing else; and
\* every check made with the flag set returns the interrupt error.
C15_FlagMonotone ==
    /\ ~sigint_received
    /\ [][/\ sigint_received => sigint_received'
          /\ sigint_received' # sigint_received
             => UNCHANGED <<pc, error, idx, cur, requests, stat_log, open_log, fs, dir>>
          /\ (sigint_received /\ idx' # idx) => error' = Some(ErrSigint)]_vars

\* the flag was set before the first iteration, whose check returned the error
C15_Witness ==
    /\ sigint_received
    /\ error = Some(ErrSigint)
    /\ idx = 1
    /\ stat_log = <<>>

\* The lines among the first n that begin with `[`.
BracketLines(items, n) == {k \in 1..n : IsHeaderLike(items[k])}

MaxOf(S) == CHOOSE k \in S : \A j \in S : j <= k
MinOf(S) == CHOOSE k \in S : \A j \in S : k <= j

\* C16: at every point of the parse the section flag is true exactly when,
\* among the lines consumed that begin with `[`, the most recent is exactly
\* [InternetShortcut] (same case, nothing before or after it); it is false
\* when there is no such line.
C16_SectionFlag ==
    in_shortcut_section =
        (/\ BracketLines(lines, pos) # {}
         /\ lines[MaxOf(BracketLines(lines, pos))] = SectionHeader)

\* the header, another section, the header again: the section is entered anew
C16_Witness ==
    /\ result = None
    /\ in_shortcut_section
    /\ \E h, o \in 1..pos :
          /\ h < o /\ o < pos
          /\ lines[h] = SectionHeader
          /\ lines[o] \in {OtherHeader, LowerHeader, TrailingSpaceHeader}
          /\ lines[pos] = SectionHeader

\* C17: key and iconFilename start unset; once set, neither changes in a later
\* step of the parse; and a returned pair holds the first URL= match and the
\* first IconFile= match inside the target section.
C17_SetOnce ==
    /\ IsNone(game_id) /\ IsNone(icon_filename)
    /\ [][/\ IsSome(game_id) => game_id' = game_id
          /\ IsSome(icon_filename) => icon_filename' = icon_filename]_vars
    /\ []((Finished /\ Returned.kind = "Pair") =>
            /\ Returned.game_id = DropPrefix(lines[MinOf(InSectionUrls(lines))], UrlPrefix)
            /\ Returned.icon_filename =
                  DropPrefix(lines[MinOf(InSectionIcons(lines))], IconPrefix \o LOCAL_ICON_DIR))

\* a URL= line before the header, with another number, is not the one returned
C17_Witness ==
    /\ Finished
    /\ Returned.kind = "Pair"
    /\ UrlShape(lines[1])
    /\ DropPrefix(lines[1], UrlPrefix) # Returned.game_id

ErrRequest == [msg |-> "request failed"]

\* C18: a failed fetch ends the run at once and is not tried again: the step
\* sends no request and changes no file; in the failed state the run has sent
\* one request for that shortcut (no more requests than entries taken, the
\* last of them for the shortcut in hand) and has made no file at its
\* destination, and nothing follows.
C18_FetchFailureAborts ==
    /\ [][/\ (pc = "Fetching" /\ pc' = "Failed")
             => (/\ error' = Some(ErrRequest)
                 /\ requests' = requests
                 /\ fs' = fs
                 /\ idx' = idx)
          /\ (error = Some(ErrRequest))
             => UNCHANGED <<pc, error, idx, requests, stat_log, open_log, cur>>]_vars
    /\ [](Len(requests) <= idx)
    /\ [](error = Some(ErrRequest) =>
            /\ pc = "Failed"
            /\ requests[Len(requests)] =
                  IconUrl(Unwrap(cur).game_id, Unwrap(cur).icon_filename)
            /\ \A k \in 1..(Len(requests) - 1) : requests[k] # requests[Len(requests)]
            /\ ~\E f \in ByRun(fs) : f.path = Unwrap(cur).icon_path)

\* the first of two shortcuts could not be fetched: one request, no file, the
\* second shortcut untouched
C18_Witness ==
    /\ pc = "Failed"
    /\ error = Some(ErrRequest)
    /\ dir = <<File_a_url, File_b_url>>
    /\ idx = 1
    /\ Len(requests) = 1
    /\ open_log = <<File_a_url>>
    /\ ByRun(fs) = {}

\* C19 as stated, for the states in which no write is pending: every file the
\* run created holds the whole of a response body.
C19_Original_CreatedFilesComplete ==
    pc # "Writing" => \A f \in ByRun(fs) : f.bytes \in Bodies

\* C20: with every started step of main and every request returning, the run
\* ends, in success or in an error; success comes only after every entry was
\* taken, without error; entries are taken one at a time and only when
\* nothing is pending for the one before; a request is sent only then, and
\* main waits for it.
C20_TerminatesSequentially ==
    /\ <>(pc \in {"Done", "Failed"})
    /\ [](pc = "Done" => (idx = Len(dir) /\ error = None))
    /\ [](pc = "Failed" => IsSome(error))
    /\ [][/\ idx' # idx => (idx' = idx + 1 /\ pc = "Loop")
          /\ requests' # requests
             => (/\ pc = "Loop"
                 /\ pc' = "Fetching"
                 /\ Len(requests') = Len(requests) + 1
                 /\ idx' = idx + 1)
          /\ (InProgress /\ pc' # pc) => pc' \in {"Creating", "Writing", "Loop", "Failed"}]_vars

\* two shortcuts, two downloads one after the other, the run ended in success
C20_Witness ==
    /\ pc = "Done"
    /\ idx = 2
    /\ Len(requests) = 2
    /\ Cardinality(ByRun(fs)) = 2

====
